---- MODULE Spec2Model ----
(***************************************************************************)
(* record_manager<Link> (include/bitcoin/database/impl/record_manager.ipp) *)
(* over a growable storage file.                                           *)
(*                                                                         *)
(* File layout:  [ header ][ record_count ][ record 0 ] ... [ record N-1 ] *)
(*                                                                         *)
(* The Link integer is scaled down: a stored byte takes ByteMod values and  *)
(* Link is LinkWidth such bytes wide, so Link arithmetic is modulo         *)
(* LinkMod = ByteMod^LinkWidth.  size_t is wider than Link and its        *)
(* arithmetic does not wrap within the bounds used here.                   *)
(* BITCOIN_ASSERT is modelled as an active assertion: a failed assertion   *)
(* aborts the process (status = "faulted").                                *)
(*                                                                         *)
(* Spec runs the calls one at a time: every operation but get is one       *)
(* critical section under mutex_, so it is one atomic step.  SpecThreads   *)
(* runs allocate statement by statement in several threads.  The history   *)
(* variables only observe; focus says which of them a behaviour records.   *)
(***************************************************************************)
EXTENDS Integers, Sequences, FiniteSets, TLC

\* ------------------------------------------------------------------ bounds
\* Number of values of one stored byte (256 in the program).
ByteMod == 2
\* sizeof(Link) in bytes.
LinkWidth == 2
\* Largest header_size a manager is constructed with.
MaxHeaderSize == 1
\* Largest record_size a manager is constructed with.
MaxRecordSize == 2
\* Largest count passed to allocate (a size_t, so it may exceed the Link range).
MaxAlloc == 3
\* Size beyond which the storage rejects growth.
Capacity == 7
\* Number of threads calling into the manager.
NumThreads == 2
\* Longest logged run of successful allocate calls.
MaxAllocs == 2
\* shard_max_entries of hdb_shard (scaled down).
shard_max_entries == 1
\* Sizes past total_size that the shard's file still accepts.
ShardSlack == 2

LinkMod == ByteMod ^ LinkWidth
LinkValues == 0 .. (LinkMod - 1)
Threads == 1 .. NumThreads
Bytes == [1 .. LinkWidth -> 0 .. (ByteMod - 1)]

VARIABLES
    header_size,    \* header_size_ : fixed at construction
    record_size,    \* record_size_ : fixed at construction
    file_size,      \* file_.size()
    file_count,     \* the LinkWidth bytes of the file at offset header_size
    record_count,   \* record_count_ : the in-memory count
    mutex,          \* mutex_ : 0 when free, else the thread holding it exclusively
    pc,             \* per thread: position inside allocate
    local,          \* per thread: allocate's argument and locals
    status,         \* "running", or "faulted" after a failed assertion
    focus,          \* history: which of the history variables is recorded
    last,           \* history: the last completed call
    dur,            \* history: allocate / commit / crash / start scenario
    reopen,         \* history: create / start scenario
    sized,          \* history: a create, start or allocate succeeded since construction
    allocs,         \* history: successful allocations, in lock order, since the count
                    \*          was last set; by is the thread that held mutex_
    epoch,          \* history: the count the log in allocs starts from
    got,            \* history: the last two get calls, each with its link and offset
    crash,          \* history: what commit and create wrote since a successful create
    handed          \* history: the links allocate handed out since construction

geom == <<header_size, record_size>>
file == <<file_size, file_count>>
mgr  == <<record_count, mutex, pc, local, status>>
hist == <<focus, last, dur, reopen, sized, allocs, epoch, got, crash, handed>>
vars == <<header_size, record_size, file_size, file_count, record_count, mutex,
          pc, local, status, focus, last, dur, reopen, sized, allocs, epoch,
          got, crash, handed>>

\* ------------------------------------------------------- integer helpers
Max(a, b) == IF a >= b THEN a ELSE b

\* Conversion of a size_t value to the Link type.
Link(x) == x % LinkMod

\* serial.write_little_endian<Link>(value): least significant byte first.
to_little_endian(value) ==
    [i \in 1 .. LinkWidth |-> (value \div (ByteMod ^ (i - 1))) % ByteMod]

RECURSIVE le_value(_, _)
le_value(bytes, i) ==
    IF i > LinkWidth THEN 0
    ELSE bytes[i] * (ByteMod ^ (i - 1)) + le_value(bytes, i + 1)

\* from_little_endian_unsafe<Link>(address)
from_little_endian(bytes) == le_value(bytes, 1)

\* ------------------------------------------------------ link arithmetic
link_to_position(link) == LinkWidth + link * record_size

\* position_to_link that divides the position without taking sizeof(Link) off.
position_to_link_no_offset(position) ==
    IF record_size = 0
    THEN {[outcome |-> "fault", ret |-> 0]}
         \cup {[outcome |-> "return", ret |-> v] : v \in LinkValues}
    ELSE {[outcome |-> "return", ret |-> Link(position \div record_size)]}

\* The outcomes of position_to_link(position), for position >= sizeof(Link).
\* With record_size_ = 0 the division is an integer division by zero, which
\* is undefined: the process is killed or the call returns some Link value.
position_to_link(position) ==
    IF record_size = 0
    THEN {[outcome |-> "fault", ret |-> 0]}
         \cup {[outcome |-> "return", ret |-> v] : v \in LinkValues}
    ELSE {[outcome |-> "return", ret |-> Link((position - LinkWidth) \div record_size)]}

\* ------------------------------------------------------------- storage
\* The count-field bytes a file of the given size holds: bytes past the end
\* of the file do not exist and read as zero once the file grows over them.
sized_bytes(bytes, size) ==
    [i \in 1 .. LinkWidth |-> IF header_size + i <= size THEN bytes[i] ELSE 0]

\* file_.resize(size) succeeds (otherwise it throws).
resize_ok(size) == size <= Capacity

\* file_.reserve(size) returns true.
reserve_ok(size) == size <= Capacity

\* file_.size() after a successful reserve(size): the file only grows.
reserved_size(size) == Max(file_size, size)

\* BITCOIN_ASSERT(header_size_ + sizeof(Link) <= file_.size())
count_in_file(size) == header_size + LinkWidth <= size

\* ------------------------------------------------------------- history
Snapshot == [count |-> record_count, size |-> file_size, field |-> file_count]

NoCall == [op |-> "none", arg |-> 0, ret |-> 0, ok |-> FALSE,
           outcome |-> "none", pre |-> [count |-> 0, size |-> 0, field |-> to_little_endian(0)]]

NoDur == [phase |-> "none", P |-> 0, post |-> 0]

NoReopen == [phase |-> "none", ok |-> FALSE]

NoEpoch == [base |-> 0, created |-> FALSE]

NextDur(o, ok, outcome) ==
    IF outcome # "return" THEN NoDur
    ELSE IF o \in {"count", "get", "position_to_link"} THEN dur
    ELSE IF o = "allocate" THEN
        IF ok THEN [phase |-> "allocated",
                    P |-> from_little_endian(file_count),
                    post |-> record_count']
        ELSE dur
    ELSE IF o = "commit" THEN
        IF dur.phase \in {"allocated", "committed"}
        THEN [dur EXCEPT !.phase = "committed"]
        ELSE NoDur
    ELSE IF o = "start" THEN
        IF dur.phase = "crashed_uncommitted"
        THEN [dur EXCEPT !.phase = "restarted_uncommitted"]
        ELSE IF dur.phase = "crashed_committed"
        THEN [dur EXCEPT !.phase = "restarted_committed"]
        ELSE NoDur
    ELSE NoDur

NextReopen(o, ok, outcome) ==
    IF o \in {"count", "get", "position_to_link"} THEN reopen
    ELSE IF o = "create" /\ outcome = "return" /\ ok
    THEN [phase |-> "created", ok |-> TRUE]
    ELSE IF o = "start" /\ reopen.phase = "created"
    THEN [phase |-> "reopened", ok |-> (outcome = "return" /\ ok)]
    ELSE NoReopen

NextSized(o, ok, outcome) ==
    IF outcome = "fault" THEN FALSE
    ELSE IF outcome = "throw" THEN sized
    ELSE IF o \in {"create", "start", "allocate"} THEN
        IF ok THEN TRUE ELSE IF o = "start" THEN FALSE ELSE sized
    ELSE sized

NextAllocs(o, a, r, ok, outcome) ==
    IF outcome = "fault" THEN <<>>
    ELSE IF outcome = "throw" THEN allocs
    ELSE IF o = "allocate" /\ ok THEN Append(allocs, [start |-> r, n |-> a, by |-> mutex])
    ELSE IF o = "create" /\ ok THEN <<>>
    ELSE IF o \in {"start", "set_count"} THEN <<>>
    ELSE allocs

NextEpoch(o, ok, outcome) ==
    IF outcome = "fault" THEN [base |-> record_count', created |-> FALSE]
    ELSE IF outcome = "throw" THEN epoch
    ELSE IF o = "create" /\ ok THEN [base |-> 0, created |-> TRUE]
    ELSE IF o \in {"start", "set_count"} THEN [base |-> record_count', created |-> FALSE]
    ELSE epoch

NoCrash == [created |-> FALSE, written |-> 0, started |-> "none", crashed |-> FALSE]

NoHanded == [top |-> 0, wrapped |-> FALSE, recreated |-> FALSE]

\* The last two get calls.
NextGot(o, a, r, outcome) ==
    IF outcome = "fault" THEN <<>>
    ELSE IF o # "get" THEN got
    ELSE IF Len(got) = 2 THEN <<got[2], [link |-> a, offset |-> r]>>
    ELSE Append(got, [link |-> a, offset |-> r])

\* written is the count the last commit or successful create wrote; started is
\* the result of a start since then; crashed says a process ended in between.
NextCrash(o, ok, outcome) ==
    IF outcome = "throw" THEN crash
    ELSE IF outcome = "fault"
    THEN [crash EXCEPT !.started = IF o = "start" THEN "fault" ELSE "none"]
    ELSE IF o = "create" /\ ok
    THEN [created |-> TRUE, written |-> record_count, started |-> "none", crashed |-> FALSE]
    ELSE IF o = "commit" THEN [crash EXCEPT !.written = record_count, !.started = "none"]
    ELSE IF o = "start" THEN [crash EXCEPT !.started = IF ok THEN "true" ELSE "false"]
    ELSE IF o \in {"allocate", "set_count"} THEN [crash EXCEPT !.started = "none"]
    ELSE crash

\* top is one past the highest link a successful allocate handed out.
NextHanded(o, a, r, ok, outcome) ==
    IF outcome # "return" THEN handed
    ELSE IF o = "allocate" /\ ok /\ a > 0
    THEN [handed EXCEPT !.top = Max(handed.top, r + a),
                        !.wrapped = handed.wrapped \/ (r + a >= LinkMod)]
    ELSE IF o = "create" /\ ok
    THEN [handed EXCEPT !.recreated = handed.recreated \/ (handed.top > 0)]
    ELSE handed

\* Records a completed call: its argument, its result and the state before it.
Observe(o, a, r, ok, outcome, pre) ==
    /\ focus' = focus
    /\ last' = IF focus = "last"
               THEN [op |-> o, arg |-> a, ret |-> r, ok |-> ok, outcome |-> outcome, pre |-> pre]
               ELSE last
    /\ dur' = IF focus = "dur" THEN NextDur(o, ok, outcome) ELSE dur
    /\ reopen' = IF focus = "reopen" THEN NextReopen(o, ok, outcome) ELSE reopen
    /\ sized' = IF focus = "sized" THEN NextSized(o, ok, outcome) ELSE sized
    /\ allocs' = IF focus = "log" THEN NextAllocs(o, a, r, ok, outcome) ELSE allocs
    /\ epoch' = IF focus = "log" THEN NextEpoch(o, ok, outcome) ELSE epoch
    /\ got' = IF focus = "got" THEN NextGot(o, a, r, outcome) ELSE got
    /\ crash' = IF focus = "crash" THEN NextCrash(o, ok, outcome) ELSE crash
    /\ handed' = IF focus = "handed" THEN NextHanded(o, a, r, ok, outcome) ELSE handed

\* ---------------------------------------------------------------- Init
NoLocal == [count |-> 0, next |-> 0, required |-> 0]

InitStore ==
    /\ header_size \in 0 .. MaxHeaderSize
    /\ record_size \in 0 .. MaxRecordSize
    /\ file_size \in 0 .. Capacity
    /\ file_count \in {sized_bytes(b, file_size) : b \in Bytes}

\* record_manager(file, header_size, record_size): record_count_(0)
InitManager ==
    /\ record_count = 0
    /\ mutex = 0
    /\ pc = [t \in Threads |-> "idle"]
    /\ local = [t \in Threads |-> NoLocal]
    /\ status = "running"

InitHistory ==
    /\ last = NoCall
    /\ dur = NoDur
    /\ reopen = NoReopen
    /\ sized = FALSE
    /\ allocs = <<>>
    /\ epoch = NoEpoch
    /\ got = <<>>
    /\ crash = NoCrash
    /\ handed = NoHanded

Init ==
    /\ InitStore
    /\ InitManager
    /\ InitHistory
    /\ focus \in {"last", "dur", "reopen", "sized", "log", "got", "crash", "handed"}

InitThreads ==
    /\ InitStore
    /\ InitManager
    /\ InitHistory
    /\ focus = "log"

\* unique_lock lock(mutex_) of a call that runs its critical section in one step.
unique_lock == status = "running" /\ mutex = 0

\* shared_lock lock(mutex_): no exclusive holder.
shared_lock == status = "running" /\ mutex = 0

\* A failed BITCOIN_ASSERT aborts the process.
Fault(o, a) ==
    /\ status' = "faulted"
    /\ UNCHANGED <<geom, file, record_count, mutex, pc, local>>
    /\ Observe(o, a, 0, FALSE, "fault", Snapshot)

\* -------------------------------------------------------------- create
\* create() without the "record count is nonzero" test.
create_unguarded ==
    /\ unique_lock
    /\ LET size == header_size + link_to_position(record_count) IN
       IF ~resize_ok(size)
       THEN /\ UNCHANGED <<geom, file, mgr>>
            /\ Observe("create", 0, 0, FALSE, "throw", Snapshot)
       ELSE /\ file_size' = size
            /\ file_count' = to_little_endian(record_count)
            /\ UNCHANGED <<geom, mgr>>
            /\ Observe("create", 0, 0, TRUE, "return", Snapshot)

\* create() that calls file_.reserve where the code calls file_.resize.
create_reserve ==
    /\ unique_lock
    /\ IF record_count # 0
       THEN /\ UNCHANGED <<geom, file, mgr>>
            /\ Observe("create", 0, 0, FALSE, "return", Snapshot)
       ELSE LET size == header_size + link_to_position(record_count) IN
            IF ~reserve_ok(size)
            THEN /\ UNCHANGED <<geom, file, mgr>>
                 /\ Observe("create", 0, 0, FALSE, "throw", Snapshot)
            ELSE /\ file_size' = reserved_size(size)
                 /\ file_count' = to_little_endian(record_count)
                 /\ UNCHANGED <<geom, mgr>>
                 /\ Observe("create", 0, 0, TRUE, "return", Snapshot)

\* create() that resizes the file and returns without write_count().
create_no_write ==
    /\ unique_lock
    /\ IF record_count # 0
       THEN /\ UNCHANGED <<geom, file, mgr>>
            /\ Observe("create", 0, 0, FALSE, "return", Snapshot)
       ELSE LET size == header_size + link_to_position(record_count) IN
            IF ~resize_ok(size)
            THEN /\ UNCHANGED <<geom, file, mgr>>
                 /\ Observe("create", 0, 0, FALSE, "throw", Snapshot)
            ELSE /\ file_size' = size
                 /\ file_count' = sized_bytes(file_count, size)
                 /\ UNCHANGED <<geom, mgr>>
                 /\ Observe("create", 0, 0, TRUE, "return", Snapshot)

create ==
    /\ unique_lock
    /\ IF record_count # 0
       THEN /\ UNCHANGED <<geom, file, mgr>>
            /\ Observe("create", 0, 0, FALSE, "return", Snapshot)
       ELSE LET size == header_size + link_to_position(record_count) IN
            IF ~resize_ok(size)
            THEN /\ UNCHANGED <<geom, file, mgr>>
                 /\ Observe("create", 0, 0, FALSE, "throw", Snapshot)
            ELSE IF ~count_in_file(size)
            THEN /\ file_size' = size
                 /\ file_count' = sized_bytes(file_count, size)
                 /\ status' = "faulted"
                 /\ UNCHANGED <<geom, record_count, mutex, pc, local>>
                 /\ Observe("create", 0, 0, FALSE, "fault", Snapshot)
            ELSE /\ file_size' = size
                 /\ file_count' = to_little_endian(record_count)
                 /\ UNCHANGED <<geom, mgr>>
                 /\ Observe("create", 0, 0, TRUE, "return", Snapshot)

\* --------------------------------------------------------------- start
\* start() comparing with < where the code compares with <=.
start_strict ==
    /\ unique_lock
    /\ IF ~count_in_file(file_size)
       THEN Fault("start", 0)
       ELSE /\ record_count' = from_little_endian(file_count)
            /\ UNCHANGED <<geom, file, mutex, pc, local, status>>
            /\ LET minimum == header_size + link_to_position(record_count') IN
               Observe("start", 0, 0, minimum < file_size, "return", Snapshot)

start ==
    /\ unique_lock
    /\ IF ~count_in_file(file_size)
       THEN Fault("start", 0)
       ELSE /\ record_count' = from_little_endian(file_count)
            /\ UNCHANGED <<geom, file, mutex, pc, local, status>>
            /\ LET minimum == header_size + link_to_position(record_count') IN
               Observe("start", 0, 0, minimum <= file_size, "return", Snapshot)

\* -------------------------------------------------------------- commit
\* commit() that returns without writing the count.
commit_no_write ==
    /\ unique_lock
    /\ UNCHANGED <<geom, file, mgr>>
    /\ Observe("commit", 0, 0, TRUE, "return", Snapshot)

commit ==
    /\ unique_lock
    /\ IF ~count_in_file(file_size)
       THEN Fault("commit", 0)
       ELSE /\ file_count' = to_little_endian(record_count)
            /\ UNCHANGED <<geom, file_size, mgr>>
            /\ Observe("commit", 0, 0, TRUE, "return", Snapshot)

\* --------------------------------------------------------------- count
count ==
    /\ shared_lock
    /\ UNCHANGED <<geom, file, mgr>>
    /\ Observe("count", 0, record_count, TRUE, "return", Snapshot)

\* ----------------------------------------------------------- set_count
\* set_count(value) without its assertion.
set_count_unchecked(value) ==
    /\ unique_lock
    /\ record_count' = value
    /\ UNCHANGED <<geom, file, mutex, pc, local, status>>
    /\ Observe("set_count", value, 0, TRUE, "return", Snapshot)

set_count(value) ==
    /\ unique_lock
    /\ IF ~(value <= record_count)
       THEN Fault("set_count", value)
       ELSE /\ record_count' = value
            /\ UNCHANGED <<geom, file, mutex, pc, local, status>>
            /\ Observe("set_count", value, 0, TRUE, "return", Snapshot)

\* ------------------------------------------------------------ allocate
\* return 0: the value allocate returns when reserve fails.
allocate_failure == 0

\* required_size computed without header_size_.
required_size_no_header(n) == link_to_position(Link(record_count + n))

\* const size_t required_size = header_size_ + link_to_position(record_count_ + count)
required_size(n) == header_size + link_to_position(Link(record_count + n))

\* allocate(n) advancing the count before it knows that reserve succeeded.
allocate_count_first(n) ==
    /\ unique_lock
    /\ Len(allocs) < MaxAllocs
    /\ LET next_record_index == record_count IN
       IF ~reserve_ok(required_size(n))
       THEN /\ record_count' = Link(record_count + n)
            /\ UNCHANGED <<geom, file, mutex, pc, local, status>>
            /\ Observe("allocate", n, allocate_failure, FALSE, "return", Snapshot)
       ELSE /\ file_size' = reserved_size(required_size(n))
            /\ record_count' = Link(record_count + n)
            /\ UNCHANGED <<geom, file_count, mutex, pc, local, status>>
            /\ Observe("allocate", n, next_record_index, TRUE, "return", Snapshot)

\* allocate(n) that also writes the new count to the file.
allocate_write_count(n) ==
    /\ unique_lock
    /\ Len(allocs) < MaxAllocs
    /\ LET next_record_index == record_count IN
       IF ~reserve_ok(required_size(n))
       THEN /\ UNCHANGED <<geom, file, mgr>>
            /\ Observe("allocate", n, allocate_failure, FALSE, "return", Snapshot)
       ELSE /\ file_size' = reserved_size(required_size(n))
            /\ record_count' = Link(record_count + n)
            /\ file_count' = to_little_endian(record_count')
            /\ UNCHANGED <<geom, mutex, pc, local, status>>
            /\ Observe("allocate", n, next_record_index, TRUE, "return", Snapshot)

\* The whole critical section of allocate(n) in one step.
allocate(n) ==
    /\ unique_lock
    /\ Len(allocs) < MaxAllocs
    /\ LET next_record_index == record_count IN
       IF ~reserve_ok(required_size(n))
       THEN /\ UNCHANGED <<geom, file, mgr>>
            /\ Observe("allocate", n, allocate_failure, FALSE, "return", Snapshot)
       ELSE /\ file_size' = reserved_size(required_size(n))
            /\ record_count' = Link(record_count + n)
            /\ UNCHANGED <<geom, file_count, mutex, pc, local, status>>
            /\ Observe("allocate", n, next_record_index, TRUE, "return", Snapshot)

\* allocate(n) statement by statement: unique_lock lock(mutex_).
allocate_lock(t, n) ==
    /\ unique_lock
    /\ pc[t] = "idle"
    /\ Len(allocs) < MaxAllocs
    /\ mutex' = t
    /\ pc' = [pc EXCEPT ![t] = "locked"]
    /\ local' = [local EXCEPT ![t] = [NoLocal EXCEPT !.count = n]]
    /\ UNCHANGED <<geom, file, record_count, status, hist>>

\* next_record_index, position and required_size.
allocate_read(t) ==
    /\ status = "running"
    /\ pc[t] = "locked"
    /\ local' = [local EXCEPT ![t].next = record_count,
                              ![t].required = required_size(local[t].count)]
    /\ pc' = [pc EXCEPT ![t] = "reserve"]
    /\ UNCHANGED <<geom, file, record_count, mutex, status, hist>>

\* if (!file_.reserve(required_size)) return 0;
allocate_reserve(t) ==
    /\ status = "running"
    /\ pc[t] = "reserve"
    /\ IF ~reserve_ok(local[t].required)
       THEN /\ pc' = [pc EXCEPT ![t] = "idle"]
            /\ local' = [local EXCEPT ![t] = NoLocal]
            /\ mutex' = IF mutex = t THEN 0 ELSE mutex
            /\ UNCHANGED <<geom, file, record_count, status>>
            /\ Observe("allocate", local[t].count, allocate_failure, FALSE, "return", Snapshot)
       ELSE /\ file_size' = reserved_size(local[t].required)
            /\ pc' = [pc EXCEPT ![t] = "add"]
            /\ UNCHANGED <<geom, file_count, record_count, mutex, local, status, hist>>

\* record_count_ += count; return next_record_index;
allocate_add(t) ==
    /\ status = "running"
    /\ pc[t] = "add"
    /\ record_count' = Link(record_count + local[t].count)
    /\ pc' = [pc EXCEPT ![t] = "idle"]
    /\ local' = [local EXCEPT ![t] = NoLocal]
    /\ mutex' = IF mutex = t THEN 0 ELSE mutex
    /\ UNCHANGED <<geom, file, status>>
    /\ Observe("allocate", local[t].count, local[t].next, TRUE, "return", Snapshot)

\* ----------------------------------------------------------------- get
\* get(link) positioning the accessor without header_size_.
get_no_header(link) ==
    /\ status = "running"
    /\ UNCHANGED <<geom, file, mgr>>
    /\ Observe("get", link, link_to_position(link), TRUE, "return", Snapshot)

\* No lock is taken: the accessor is positioned whatever other threads do.
get(link) ==
    /\ status = "running"
    /\ UNCHANGED <<geom, file, mgr>>
    /\ Observe("get", link, header_size + link_to_position(link), TRUE, "return", Snapshot)

\* ----------------------------------------------------- position_to_link
\* position_to_link(link_to_position(link)): no lock, no state is touched.
link_round_trip(link) ==
    /\ status = "running"
    /\ \E res \in position_to_link(link_to_position(link)) :
         IF res.outcome = "fault"
         THEN Fault("position_to_link", link)
         ELSE /\ UNCHANGED <<geom, file, mgr>>
              /\ Observe("position_to_link", link, res.ret, TRUE, "return", Snapshot)

\* --------------------------------------------------------- constructor
\* The process ends (a crash, an abort or a normal exit) and a new manager
\* is constructed over the same file: record_count_(0).
construct ==
    /\ record_count' = 0
    /\ mutex' = 0
    /\ pc' = [t \in Threads |-> "idle"]
    /\ local' = [t \in Threads |-> NoLocal]
    /\ status' = "running"
    /\ focus' = focus
    /\ last' = IF focus = "last" THEN [NoCall EXCEPT !.op = "construct"] ELSE last
    /\ dur' = IF dur.phase = "allocated" THEN [dur EXCEPT !.phase = "crashed_uncommitted"]
              ELSE IF dur.phase = "committed" THEN [dur EXCEPT !.phase = "crashed_committed"]
              ELSE IF dur.phase \in {"crashed_uncommitted", "crashed_committed"} THEN dur
              ELSE NoDur
    /\ reopen' = IF reopen.phase = "created" THEN reopen ELSE NoReopen
    /\ sized' = FALSE
    /\ allocs' = <<>>
    /\ epoch' = NoEpoch
    /\ got' = <<>>
    /\ crash' = IF crash.created
                THEN [crash EXCEPT !.started = "none", !.crashed = TRUE]
                ELSE crash
    /\ handed' = NoHanded
    /\ UNCHANGED <<geom, file>>

Next ==
    \/ create
    \/ start
    \/ commit
    \/ count
    \/ \E value \in LinkValues : set_count(value)
    \/ \E n \in 0 .. MaxAlloc : allocate(n)
    \/ \E link \in LinkValues : get(link)
    \/ \E link \in LinkValues : link_round_trip(link)
    \/ construct

Spec == Init /\ [][Next]_vars

NextThreads ==
    \/ create
    \/ start
    \/ commit
    \/ count
    \/ \E value \in LinkValues : set_count(value)
    \/ \E t \in Threads, n \in 0 .. MaxAlloc : allocate_lock(t, n)
    \/ \E t \in Threads : allocate_read(t)
    \/ \E t \in Threads : allocate_reserve(t)
    \/ \E t \in Threads : allocate_add(t)
    \/ \E link \in LinkValues : get(link)
    \/ construct

SpecThreads == InitThreads /\ [][NextThreads]_vars

\* ------------------------------------------------------------ hdb_shard
\* hdb_shard (src/database/hdb_shard.cpp) over its own memory-mapped file:
\* file_size is file_.size(); the record_manager variables stay as constructed.

\* constexpr size_t total_size = 8 + 8 * shard_max_entries
total_size == 8 + 8 * shard_max_entries

\* file_.resize(size) returns true.
mmfile_resize_ok(size) == size <= total_size + ShardSlack

\* hdb_shard::reserve(size), entered by the call named o.
reserve_unchecked(o, size) ==
    /\ status = "running"
    /\ IF ~mmfile_resize_ok(size)
       THEN Fault(o, size)
       ELSE /\ file_size' = size
            /\ UNCHANGED <<geom, file_count, mgr>>
            /\ Observe(o, size, 0, TRUE, "return", Snapshot)

\* hdb_shard::reserve(size), entered by the call named o:
\*   BITCOIN_ASSERT(size > file_.size());
\*   bool success = file_.resize(size);
\*   BITCOIN_ASSERT(success);
reserve(o, size) ==
    /\ status = "running"
    /\ IF ~(size > file_size)
       THEN Fault(o, size)
       ELSE IF ~mmfile_resize_ok(size)
       THEN Fault(o, size)
       ELSE /\ file_size' = size
            /\ UNCHANGED <<geom, file_count, mgr>>
            /\ Observe(o, size, 0, TRUE, "return", Snapshot)

hdb_shard_reserve(size) == reserve("reserve", size)

\* hdb_shard::initialize_new(): reserve(total_size)
initialize_new == reserve("initialize_new", total_size)

\* The process ends and a new hdb_shard is constructed over the same file.
hdb_shard ==
    /\ status' = "running"
    /\ last' = [NoCall EXCEPT !.op = "hdb_shard"]
    /\ UNCHANGED <<geom, file, record_count, mutex, pc, local, focus, dur,
                   reopen, sized, allocs, epoch, got, crash, handed>>

InitShard ==
    /\ header_size = 0
    /\ record_size = 0
    /\ file_size \in 0 .. (total_size + ShardSlack)
    /\ file_count = to_little_endian(0)
    /\ InitManager
    /\ InitHistory
    /\ focus = "last"

NextShard ==
    \/ \E size \in 0 .. (total_size + ShardSlack + 1) : hdb_shard_reserve(size)
    \/ initialize_new
    \/ hdb_shard

SpecShard == InitShard /\ [][NextShard]_vars

\* =============================================================== claims
\* The size the layout needs for a count of c records.
LayoutSize(c) == header_size + LinkWidth + c * record_size

\* The count stored in the file's count field.
PersistedCount == from_little_endian(file_count)

RECURSIVE SumN(_, _)
\* n_1 + ... + n_k of the logged allocations.
SumN(log, k) == IF k = 0 THEN 0 ELSE log[k].n + SumN(log, k - 1)

\* The links [start, start + n) of the i-th logged allocation.
Range(i) == allocs[i].start .. (allocs[i].start + allocs[i].n - 1)

\* The logged allocations never carried the count past the Link range.
InLinkRange == epoch.base + SumN(allocs, Len(allocs)) < LinkMod

\* C1: durability boundary.  After a successful allocate made when the
\* persisted count was P, a crash before commit() and a start() on a fresh
\* manager give count() = P; with a commit() between the allocate and the
\* crash, the start() gives the post-allocation count.
DurabilityBoundary ==
    /\ dur.phase = "restarted_uncommitted" => record_count = dur.P
    /\ dur.phase = "restarted_committed" => record_count = dur.post

DurabilityWitness ==
    /\ dur.phase = "restarted_committed"
    /\ dur.post # dur.P
    /\ record_count # 0

\* C2: allocation monotonicity.  On a freshly created store, the i-th
\* successful allocate returns n_1 + ... + n_(i-1) and the count after it is
\* n_1 + ... + n_i.
AllocationMonotonicity ==
    epoch.created =>
        /\ \A i \in 1 .. Len(allocs) : allocs[i].start = SumN(allocs, i - 1)
        /\ record_count = SumN(allocs, Len(allocs))

\* C2 restricted to runs whose sum stays within the Link range.
AllocationMonotonicityInRange ==
    (epoch.created /\ InLinkRange) => AllocationMonotonicity

\* C3: capacity failure leaves state unchanged.  When reserve returns false,
\* allocate returns 0 and the in-memory count, the persisted count and the file
\* size are what they were before the call.
CapacityFailureUnchanged ==
    (last.op = "allocate" /\ ~last.ok) =>
        /\ last.outcome = "return"
        /\ last.ret = 0
        /\ record_count = last.pre.count
        /\ file_count = last.pre.field
        /\ file_size = last.pre.size

CapacityFailureWitness ==
    /\ last.op = "allocate"
    /\ ~last.ok
    /\ last.arg > 0
    /\ last.pre.count > 0

\* C4: size invariant.  After a create, start or allocate that succeeded, and
\* after any set_count or commit that follows, the file holds the header, the
\* count field and record_count records.
SizeInvariant == sized => file_size >= LayoutSize(record_count)

SizeInvariantWitness ==
    /\ sized
    /\ record_count > 0
    /\ record_size > 0
    /\ header_size > 0

\* C5: concurrent allocate calls are serialized.  The successful calls get
\* pairwise disjoint ranges, the call that took the lock first gets the lower
\* range, and the count is the initial count plus the sum of the allocated n.
SerializedAllocation ==
    LET Concurrent(i, j) == i < j /\ allocs[i].by # allocs[j].by IN
    /\ \A i, j \in 1 .. Len(allocs) : Concurrent(i, j) => Range(i) \cap Range(j) = {}
    /\ \A i, j \in 1 .. Len(allocs) :
           Concurrent(i, j) => allocs[i].start + allocs[i].n <= allocs[j].start
    /\ (\E i, j \in 1 .. Len(allocs) : Concurrent(i, j)) =>
           record_count = epoch.base + SumN(allocs, Len(allocs))

\* C5 restricted to runs whose sum stays within the Link range.
SerializedAllocationInRange == InLinkRange => SerializedAllocation

\* C6: rollback bound.  set_count(v) with v > count() faults and leaves the
\* count alone; with v <= count() it returns and the count is v.
RollbackBound ==
    last.op = "set_count" =>
        IF last.arg > last.pre.count
        THEN last.outcome = "fault" /\ status = "faulted" /\ record_count = last.pre.count
        ELSE last.outcome = "return" /\ status = "running" /\ record_count = last.arg

RollbackBoundWitness ==
    /\ last.op = "set_count"
    /\ last.arg > last.pre.count
    /\ last.pre.count > 0

\* C7: the in-memory count never decreases across an allocate call, also when
\* count + n exceeds the largest Link value.
AllocateNeverDecreases ==
    last.op = "allocate" => record_count >= last.pre.count

\* C7 restricted to calls whose count + n stays within the Link range.
AllocateNeverDecreasesInRange ==
    (last.op = "allocate" /\ last.pre.count + last.arg < LinkMod) =>
        record_count >= last.pre.count

\* C8: create() called while the in-memory count is nonzero returns false and
\* leaves the file size, the persisted count and the in-memory count unchanged.
CreateNonzeroFails ==
    (last.op = "create" /\ last.pre.count # 0) =>
        /\ last.outcome = "return"
        /\ ~last.ok
        /\ file_size = last.pre.size
        /\ file_count = last.pre.field
        /\ record_count = last.pre.count

CreateNonzeroWitness ==
    /\ last.op = "create"
    /\ last.pre.count # 0
    /\ last.pre.size > LayoutSize(0)

IdempotentReopen ==
    reopen.phase = "reopened" => (reopen.ok /\ record_count = 0)

IdempotentReopenWitness ==
    /\ reopen.phase = "reopened"
    /\ record_count = 0

\* C11: link/offset inverse law.  For every link below count() and every
\* record_size the manager can be constructed with,
\* position_to_link(link_to_position(link)) returns link.
InverseLaw ==
    (last.op = "position_to_link" /\ last.arg < last.pre.count) =>
        (last.outcome = "return" /\ last.ret = last.arg)

\* C11 as amended: the law for every record_size >= 1.
InverseLawPositiveRecordSize ==
    (last.op = "position_to_link" /\ last.arg < last.pre.count /\ record_size >= 1) =>
        (last.outcome = "return" /\ last.ret = last.arg)

InverseLawWitness ==
    /\ last.op = "position_to_link"
    /\ last.outcome = "return"
    /\ record_size > 1
    /\ last.arg > 0
    /\ last.arg < last.pre.count

\* The record_size bytes of the record at the given offset.
RecordBytes(offset) == offset .. (offset + record_size - 1)

\* The bytes of the count field.
CountFieldBytes == header_size .. (header_size + LinkWidth - 1)

\* Two observed get calls on links below count().
ValidGets == {g \in {got[i] : i \in 1 .. Len(got)} : g.link < record_count}

\* C12: get(L) positions the accessor at header_size + link_width +
\* L * record_size; distinct links below count() get distinct offsets and
\* disjoint record ranges, and no record range overlaps the count field.
GetInjective ==
    /\ \A g \in ValidGets :
         /\ g.offset = header_size + LinkWidth + g.link * record_size
         /\ RecordBytes(g.offset) \cap CountFieldBytes = {}
    /\ \A g, h \in ValidGets :
         g.link # h.link =>
             /\ g.offset # h.offset
             /\ RecordBytes(g.offset) \cap RecordBytes(h.offset) = {}

\* C12 as amended: the same for every record_size >= 1.
GetInjectivePositiveRecordSize == record_size >= 1 => GetInjective

GetInjectiveWitness ==
    /\ record_size > 1
    /\ header_size > 0
    /\ \E g, h \in ValidGets : g.link # h.link

\* C13: a manager is never re-initialized over existing data.  When the
\* store's persisted count is nonzero and its (nonempty) records are in the file, no
\* create(), also on a freshly constructed manager that was never started,
\* truncates the file or resets the persisted count.
NoReinitOverData ==
    (/\ last.op = "create"
     /\ record_size >= 1
     /\ from_little_endian(last.pre.field) # 0
     /\ last.pre.size >= LayoutSize(from_little_endian(last.pre.field))) =>
        /\ file_size = last.pre.size
        /\ file_count = last.pre.field

\* C13 restricted to managers whose in-memory count is nonzero at the call.
NoReinitOverDataStarted ==
    (last.op = "create" /\ last.pre.count # 0) => NoReinitOverData

\* C14: a successful create() leaves the file exactly header_size +
\* link_width bytes long, the persisted count 0 and the in-memory count 0,
\* whatever the file size was before.
CreateExactSize ==
    (last.op = "create" /\ last.ok) =>
        /\ last.outcome = "return"
        /\ file_size = header_size + LinkWidth
        /\ PersistedCount = 0
        /\ record_count = 0

CreateExactSizeWitness ==
    /\ last.op = "create"
    /\ last.ok
    /\ last.pre.size > header_size + LinkWidth
    /\ from_little_endian(last.pre.field) # 0

\* C15: the persisted count field changes only in commit() (to the in-memory
\* count) and in a successful create() (to 0); allocate, set_count, count, get
\* and start leave it unchanged, and set_count and commit leave the file size
\* unchanged.
CountFieldFrame ==
    /\ last.op \in {"allocate", "set_count", "count", "get", "start"} =>
           file_count = last.pre.field
    /\ (last.op = "commit" /\ last.outcome = "return") =>
           file_count = to_little_endian(last.pre.count)
    /\ (last.op = "commit" /\ last.outcome # "return") => file_count = last.pre.field
    /\ (last.op = "create" /\ last.ok) => file_count = to_little_endian(0)
    /\ (last.op = "create" /\ ~last.ok) => file_count = last.pre.field
    /\ last.op \in {"set_count", "commit"} => file_size = last.pre.size

CountFieldFrameWitness ==
    /\ last.op = "allocate"
    /\ last.ok
    /\ last.arg > 0
    /\ last.pre.size < file_size
    /\ record_count # PersistedCount

\* C16: the value allocate returns on failure is a sentinel: no successful
\* allocate (of at least one nonempty record) returns the value that a failed
\* allocate returns.
SentinelDistinct ==
    (last.op = "allocate" /\ last.ok /\ last.arg > 0 /\ record_size >= 1) =>
        last.ret # allocate_failure

\* C16 restricted to calls made when the count is nonzero.
SentinelDistinctNonzeroCount ==
    (last.op = "allocate" /\ last.ok /\ last.pre.count # 0) => last.ret # allocate_failure

\* C17: crash consistency of the persisted count.  In every state reached
\* from a successful create(), the file holds the header, the count field and
\* persisted-count records, so a start() after a crash at any point returns
\* true and yields the count the last commit() or create() wrote.
CrashConsistency ==
    crash.created =>
        /\ file_size >= header_size + LinkWidth + PersistedCount * record_size
        /\ PersistedCount = crash.written
        /\ crash.started # "none" =>
               (crash.started = "true" /\ record_count = crash.written)

CrashConsistencyWitness ==
    /\ crash.created
    /\ crash.crashed
    /\ crash.started = "true"
    /\ record_count > 0
    /\ record_size >= 1
    /\ file_size > header_size + LinkWidth + PersistedCount * record_size

\* C18: every link a successful allocate handed out stays physically inside
\* the file for the rest of the manager's life: after any later allocate,
\* set_count, commit and create, the record of the highest link handed out
\* ends at or before the end of the file.
HandedLinksStayInFile ==
    (handed.top > 0 /\ record_size >= 1) =>
        header_size + LinkWidth + handed.top * record_size <= file_size

\* C18, restricted: the same bound while no count has left the Link range and
\* no create() has been run over links already handed out.
HandedLinksStayInFileNoRecreate ==
    (handed.top > 0 /\ ~handed.wrapped /\ ~handed.recreated) =>
        header_size + LinkWidth + handed.top * record_size <= file_size

\* C18, within the Link range: the same bound while no count has left the
\* Link range, create() included among the later calls.
HandedLinksStayInFileInRange ==
    (handed.top > 0 /\ ~handed.wrapped /\ record_size >= 1) =>
        header_size + LinkWidth + handed.top * record_size <= file_size

\* C19: hdb_shard::reserve(size) only ever grows the file.  It faults when
\* size <= the current file size and when the resize fails; when it returns
\* the file is size bytes long and longer than before.  So initialize_new()
\* on a file already at least 8 + 8 * shard_max_entries bytes long faults
\* and leaves the file as it was.
ShardReserveOnlyGrows ==
    /\ last.op \in {"reserve", "initialize_new"} =>
           /\ last.arg <= last.pre.size =>
                  /\ last.outcome = "fault"
                  /\ status = "faulted"
                  /\ file_size = last.pre.size
           /\ ~mmfile_resize_ok(last.arg) =>
                  (last.outcome = "fault" /\ status = "faulted")
           /\ last.outcome = "return" =>
                  (file_size = last.arg /\ file_size > last.pre.size)
           /\ file_size >= last.pre.size
    /\ last.op = "initialize_new" =>
           /\ last.arg = 8 + 8 * shard_max_entries
           /\ last.pre.size >= 8 + 8 * shard_max_entries =>
                  (last.outcome = "fault" /\ file_size = last.pre.size)

ShardReserveOnlyGrowsWitness ==
    /\ last.op = "initialize_new"
    /\ last.pre.size > 8 + 8 * shard_max_entries
    /\ last.outcome = "fault"
    /\ status = "faulted"

====
